---- MODULE Spec2Model ----
(***************************************************************************)
(* PEL code-request workflow: the object database of lib/storage, the      *)
(* plant/company code forms, the approval dashboard, the IT dashboard and  *)
(* user management, as state machines over the shared store.               *)
(*                                                                         *)
(* Seven specifications share the variables:                               *)
(*   Spec          the workflow: forms, approval dashboard, IT dashboard   *)
(*   RequestorSpec the requestor dashboard's forms open in several tabs    *)
(*   StorageFailureSpec the forms on a store whose writes can be rejected  *)
(*   UserSpec      user management and (re-)initialisation of the database *)
(*   ApiSpec       the exported storage functions called on a stored db    *)
(*   QuerySpec     getPendingRequestsForRole on a stored database          *)
(*   FnSpec        the pure functions (status tables, compareObjects)      *)
(***************************************************************************)
EXTENDS Integers, Sequences, FiniteSets, Bags, TLC

VARIABLES
    users,          \* object store 'users', keyPath email
    requests,       \* object store 'requests', keyPath requestId
    details,        \* object stores 'plantCodeDetails'/'companyCodeDetails', keyPath [requestId, version]
    approvals,      \* object store 'approvals', keyPath [requestId, approverEmail]
    historyLogs,    \* object store 'historyLogs', keyPath [requestId, timestamp]
    notifications,  \* object store 'notifications'
    dbInstance,     \* the page's cached connection: FALSE is null
    now,            \* the clock read by new Date(): the time of the next write
    itRequests,     \* ITDashboard, per open dashboard: the rows of Pending SAP Updates at the last load
    apRequests,     \* ApprovalDashboard, per role: the rows of Pending My Review at the last load
    forms,          \* the open edit and change forms of the requestor dashboard
    usersList,      \* UserManagement: the users state at the last load
    deleted,        \* history: emails removed by deleteUser and not created again since
    fn,             \* FnSpec: the arguments drawn and the value returned
    last            \* history: the operation that acted last, with its arguments

vars == <<users, requests, details, approvals, historyLogs, notifications,
          dbInstance, now, itRequests, apRequests, forms, usersList, deleted, fn, last>>

-----------------------------------------------------------------------------
(* Bounds *)

MaxReq == 2
MaxTime == 4

ReqIds == 1..MaxReq

\* an optional field that is not set (undefined)
Absent == -1

\* the value of last and fn before any operation
NoOp == [op |-> "init", id |-> 0, who |-> "", arg |-> ""]

-----------------------------------------------------------------------------
(* Users: storage initDB / initializeDefaultUsers / createUser / deleteUser *)

DefaultUsers ==
    { [email |-> "it@pel.com",     role |-> "it"],
      [email |-> "sec@pel.com",    role |-> "secretary"],
      [email |-> "siva@pel.com",   role |-> "siva"],
      [email |-> "raghu@pel.com",  role |-> "raghu"],
      [email |-> "manoj@pel.com",  role |-> "manoj"],
      [email |-> "aarnav@pel.com", role |-> "admin"] }

HasUser(us, email) == \E u \in us : u.email = email

\* for (const user of defaultUsers) { if (!exists) add(user) }
initializeDefaultUsers(us) ==
    us \cup { d \in DefaultUsers : ~HasUser(us, d.email) }

\* tx.objectStore('users').add(user): add fails on an existing key
createUser(us, email, role) ==
    IF HasUser(us, email) THEN us ELSE us \cup { [email |-> email, role |-> role] }

\* tx.objectStore('users').delete(email)
deleteUser(us, email) == { u \in us : u.email # email }

-----------------------------------------------------------------------------
(* Requests, details, approvals, history, notifications: lib/storage *)

Types == {"plant", "company"}

\* Request.status as the storage layer declares it
StorageStatuses ==
    {"draft", "pending-secretary", "pending-siva", "pending-raghu", "pending-manoj",
     "approved", "rejected", "sap-updated", "completed"}

HasRequest(rs, id) == \E r \in rs : r.requestId = id
GetRequest(rs, id) == CHOOSE r \in rs : r.requestId = id
Status(rs, id) == GetRequest(rs, id).status

\* db.put('requests', request): insert, or replace the record with that key
saveRequest(rs, request) ==
    { r \in rs : r.requestId # request.requestId } \cup {request}

\* savePlantCodeDetails / saveCompanyCodeDetails: db.put with keyPath
\* [requestId, version] into the store of that type
saveDetails(ds, type, d) ==
    [ds EXCEPT ![type] =
        { x \in @ : ~(x.requestId = d.requestId /\ x.version = d.version) } \cup {d}]

\* db.put('historyLogs', log) with keyPath [requestId, timestamp]
saveHistoryLog(hl, log) ==
    { x \in hl : ~(x.requestId = log.requestId /\ x.timestamp = log.timestamp) } \cup {log}

\* db.put('approvals', approval) with keyPath [requestId, approverEmail]
saveApproval(ap, a) ==
    { x \in ap : ~(x.requestId = a.requestId /\ x.approverEmail = a.approverEmail) } \cup {a}

MaxOf(S) == CHOOSE x \in S : \A y \in S : y <= x

DetailsOf(ds, type, id) == { d \in ds[type] : d.requestId = id }

\* allVersions.sort((a, b) => b.version - a.version)[0] || null
HasDetails(ds, type, id) == DetailsOf(ds, type, id) # {}
getLatestRequestDetails(ds, type, id) ==
    CHOOSE d \in DetailsOf(ds, type, id) :
        d.version = MaxOf({ x.version : x \in DetailsOf(ds, type, id) })

\* the role table with finance in place of manoj
statusMapWithFinance(role) ==
    CASE role = "secretary" -> "pending-secretary"
      [] role = "finance" -> "pending-finance"
      [] role = "raghu" -> "pending-raghu"
      [] role = "siva" -> "pending-siva"
      [] OTHER -> ""

\* statusMap[role]; a role that is no key gives undefined, kept as the
\* equally falsy ''
statusMap(role) ==
    CASE role = "secretary" -> "pending-secretary"
      [] role = "siva" -> "pending-siva"
      [] role = "raghu" -> "pending-raghu"
      [] role = "manoj" -> "pending-manoj"
      [] OTHER -> ""

\* requests.sort((a, b) => b.createdAt - a.createdAt) on the records of
\* getAllFromIndex, which come in the order of their keys: the sort is stable
RECURSIVE SortByCreatedAtDesc(_)
SortByCreatedAtDesc(S) ==
    IF S = {} THEN <<>>
    ELSE LET first == CHOOSE r \in S : \A x \in S :
                          \/ r.createdAt > x.createdAt
                          \/ r.createdAt = x.createdAt /\ r.requestId <= x.requestId
         IN <<first>> \o SortByCreatedAtDesc(S \ {first})

\* if (!status) return []; getAllFromIndex('requests', 'status', status), sorted
getPendingRequestsForRole(rs, role) ==
    LET status == statusMap(role)
    IN IF status = "" THEN <<>>
       ELSE SortByCreatedAtDesc({ r \in rs : r.status = status })

\* a put that also bumps the version
updateRequestStatusBumpsVersion(rs, requestId, status, t) ==
    IF HasRequest(rs, requestId)
    THEN saveRequest(rs, [GetRequest(rs, requestId) EXCEPT
                              !.status = status, !.updatedAt = t, !.version = @ + 1])
    ELSE rs

\* request.status = status; request.updatedAt = new Date().toISOString(); put
\* (nothing is written when get(requestId) finds no record)
updateRequestStatus(rs, requestId, status, t) ==
    IF HasRequest(rs, requestId)
    THEN saveRequest(rs, [GetRequest(rs, requestId) EXCEPT !.status = status, !.updatedAt = t])
    ELSE rs

\* (1000 * 60 * 60 * 24)
MsPerDay == 1000 * 60 * 60 * 24

\* Math.ceil(a / b) for b > 0
Ceil(a, b) == -((-a) \div b)

\* a turnaround rounded down
turnaroundTimeFloor(createdAt, completedAt) ==
    (completedAt - createdAt) \div MsPerDay

\* Math.ceil((completedDate.getTime() - createdDate.getTime()) / (1000*60*60*24));
\* toISOString and new Date(iso) keep the millisecond, so a time is its
\* number of milliseconds throughout
turnaroundTime(createdAt, completedAt) ==
    Ceil(completedAt - createdAt, MsPerDay)

\* markRequestCompleted: the put of the request
markRequestCompleted(rs, requestId, completedAt) ==
    IF HasRequest(rs, requestId)
    THEN LET request == GetRequest(rs, requestId)
         IN saveRequest(rs, [request EXCEPT
                !.status = "completed",
                !.isCompleted = TRUE,
                !.completedAt = completedAt,
                !.turnaroundTime = turnaroundTime(request.createdAt, completedAt),
                !.updatedAt = completedAt])
    ELSE rs

\* markRequestCompleted: the completion log
markRequestCompletedLog(hl, rs, requestId, completedBy, completedAt) ==
    IF HasRequest(rs, requestId)
    THEN saveHistoryLog(hl,
             [requestId |-> requestId, timestamp |-> completedAt,
              action |-> "update-sap", user |-> completedBy,
              metadata |-> [turnaroundTime |->
                                turnaroundTime(GetRequest(rs, requestId).createdAt, completedAt),
                            completedBy |-> completedBy]])
    ELSE hl

\* the history action addApproval derives from the decision string
ApprovalAction(decision) ==
    IF decision = "approve" THEN "approve"
    ELSE IF decision = "reject" THEN "reject"
    ELSE "update-sap"

\* addApproval: the approval record, then the history log of the same timestamp
addApprovalRecord(ap, requestId, approverEmail, role, decision, comment, t) ==
    saveApproval(ap, [requestId |-> requestId, approverEmail |-> approverEmail,
                      role |-> role, decision |-> decision, comment |-> comment,
                      timestamp |-> t])

addApprovalLog(hl, requestId, approverEmail, role, decision, comment, t) ==
    saveHistoryLog(hl, [requestId |-> requestId, timestamp |-> t,
                        action |-> ApprovalAction(decision), user |-> approverEmail,
                        metadata |-> [comment |-> comment, role |-> role, decision |-> decision]])

\* Approval.decision: 'approve' | 'reject'
ApprovalDecisions == {"approve", "reject"}

\* RequestDetailsDialog, Approval History: the badge of an approval record
DecisionBadge(decision) == IF decision = "approve" THEN "Approved" ELSE "Rejected"

\* the five fixed stakeholders, then the requestor unless excluded; one
\* notification each, except to the sender
Stakeholders == {"sec@pel.com", "siva@pel.com", "raghu@pel.com", "manoj@pel.com", "it@pel.com"}

sendNotificationToAllStakeholders(ns, rs, requestId, type, excludeEmail, t) ==
    LET all == Stakeholders \cup
               (IF HasRequest(rs, requestId) /\ GetRequest(rs, requestId).createdBy # excludeEmail
                THEN {GetRequest(rs, requestId).createdBy} ELSE {})
    IN ns \cup { [recipientEmail |-> e, type |-> type, requestId |-> requestId,
                  timestamp |-> t, read |-> FALSE] : e \in all \ {excludeEmail} }

-----------------------------------------------------------------------------
(* ApprovalDashboard: the status tables *)

\* approvalFlow
ChainStatuses ==
    <<"pending", "secretary-review", "finance-review", "raghu-review", "siva-review", "approved">>

ChainSet == { ChainStatuses[i] : i \in 1..Len(ChainStatuses) }
ChainIndex(s) == CHOOSE i \in 1..Len(ChainStatuses) : ChainStatuses[i] = s

\* a chain that passes over finance-review
getNextStatusSkipsStage(currentStatus, userRole, decision) ==
    IF decision = "rejected" THEN "rejected"
    ELSE CASE currentStatus = "pending" -> "secretary-review"
           [] currentStatus = "secretary-review" -> "raghu-review"
           [] currentStatus = "finance-review" -> "raghu-review"
           [] currentStatus = "raghu-review" -> "siva-review"
           [] currentStatus = "siva-review" -> "approved"
           [] OTHER -> currentStatus

getNextStatus(currentStatus, userRole, decision) ==
    IF decision = "rejected" THEN "rejected"
    ELSE CASE currentStatus = "pending" -> "secretary-review"
           [] currentStatus = "secretary-review" -> "finance-review"
           [] currentStatus = "finance-review" -> "raghu-review"
           [] currentStatus = "raghu-review" -> "siva-review"
           [] currentStatus = "siva-review" -> "approved"
           [] OTHER -> currentStatus

\* statusRoleMap[request.status] === userRole
canApprove(status, userRole) ==
    CASE status = "pending" -> userRole = "secretary"
      [] status = "secretary-review" -> userRole = "finance"
      [] status = "finance-review" -> userRole = "raghu"
      [] status = "raghu-review" -> userRole = "siva"
      [] OTHER -> FALSE

AllStatuses == StorageStatuses \cup ChainSet \cup {"pending-finance"}

ApproverRoles == {"secretary", "finance", "raghu", "siva"}
AllRoles == ApproverRoles \cup {"manoj", "it", "admin", "requestor"}

RoleEmail(role) ==
    CASE role = "secretary" -> "sec@pel.com"
      [] role = "finance" -> "fin@pel.com"
      [] role = "raghu" -> "raghu@pel.com"
      [] role = "siva" -> "siva@pel.com"

-----------------------------------------------------------------------------
(* Field values and lib/changeTracking.compareObjects *)

\* a JavaScript value of a details or form field: a string, a number, NaN
Sv(x) == [k |-> "s", s |-> x, n |-> 0]
Nv(i) == [k |-> "n", s |-> "", n |-> i]
NaN == [k |-> "nan", s |-> "", n |-> 0]

\* the object {}
EmptyObject == [f \in {} |-> Sv("")]

\* v || '' takes the right operand for '', 0 and NaN (and for undefined)
Falsy(v) == (v.k = "s" /\ v.s = "") \/ (v.k = "n" /\ v.n = 0) \/ v.k = "nan"

\* String(v)
String(v) ==
    CASE v.k = "s" -> v.s
      [] v.k = "n" -> ToString(v.n)
      [] OTHER -> "NaN"

\* ['requestId', 'version', 'createdAt', 'updatedAt'].includes(field)
MetadataFields == {"requestId", "version", "createdAt", "updatedAt"}

\* obj?.[field] || ''
OrEmpty(obj, field) ==
    IF field \in DOMAIN obj /\ ~Falsy(obj[field]) THEN obj[field] ELSE Sv("")

ComparedFields(oldObj, newObj) == (DOMAIN oldObj \cup DOMAIN newObj) \ MetadataFields

\* the order of the changes list is that of the keys; it is kept as a set
compareObjects(oldObj, newObj) ==
    LET changed == { f \in ComparedFields(oldObj, newObj) :
                        String(OrEmpty(oldObj, f)) # String(OrEmpty(newObj, f)) }
    IN [ hasChanges |-> changed # {},
         changes |-> { [field |-> f, oldValue |-> OrEmpty(oldObj, f),
                        newValue |-> OrEmpty(newObj, f)] : f \in changed },
         changedFields |-> changed ]

-----------------------------------------------------------------------------
(* PlantCodeForm / CompanyCodeForm *)

MaxVersion == 2

MaxOpenForms == 1

\* the signed-in requestor
Requestor == "req@pel.com"

NoRecord == [none |-> TRUE]

\* the text typed into the Shareholding % input
PctInputs == {"", "50", "51", "75"}

\* parseFloat on the inputs drawn
parseFloat(str) ==
    CASE str = "50" -> Nv(50)
      [] str = "51" -> Nv(51)
      [] str = "75" -> Nv(75)
      [] OTHER -> NaN

PlantFormInputs ==
    { [plantCode |-> Sv("P1"), nameOfPlant |-> Sv(n)] : n \in {"", "N1", "N2"} }

CompanyFormInputs ==
    { [companyCode |-> Sv("C1"), companyName |-> Sv("M1"),
       shareholdingPercentage |-> Sv(p)] : p \in PctInputs }

FormInputs(type) == IF type = "plant" THEN PlantFormInputs ELSE CompanyFormInputs

\* a validation of the required fields alone
validateFormRequiredOnly(type, formData) ==
    \A f \in DOMAIN formData : formData[f].s # ""

\* validateForm: every required field is filled; the company form also
\* refuses parseFloat(shareholdingPercentage) < 51
validateForm(type, formData) ==
    /\ \A f \in DOMAIN formData : formData[f].s # ""
    /\ type = "company" =>
         LET percentage == parseFloat(formData.shareholdingPercentage.s)
         IN ~(percentage.k = "n" /\ percentage.n < 51)

\* const dbFormData = {...formData, nameOfCompanyCode: formData.companyName}; delete companyName
DbFormData(type, formData) ==
    IF type = "plant" THEN formData
    ELSE [companyCode |-> formData.companyCode,
          shareholdingPercentage |-> formData.shareholdingPercentage,
          nameOfCompanyCode |-> formData.companyName]

\* { requestId, ...formData, version } / the CompanyCodeDetails literal
DetailsRecord(type, requestId, formData, version) ==
    IF type = "plant"
    THEN [requestId |-> requestId, version |-> version,
          plantCode |-> formData.plantCode, nameOfPlant |-> formData.nameOfPlant]
    ELSE [requestId |-> requestId, version |-> version,
          companyCode |-> formData.companyCode,
          nameOfCompanyCode |-> formData.companyName,
          shareholdingPercentage |-> parseFloat(formData.shareholdingPercentage.s)]

FormCode(type, formData) ==
    IF type = "plant" THEN formData.plantCode.s ELSE formData.companyCode.s

\* a Request as the forms build it: the optional fields are not set
NewRequest(requestId, type, title, status, createdBy, createdAt, updatedAt, version) ==
    [requestId |-> requestId, type |-> type, title |-> title, status |-> status,
     createdBy |-> createdBy, createdAt |-> createdAt, updatedAt |-> updatedAt,
     version |-> version,
     isCompleted |-> FALSE, completedAt |-> Absent, turnaroundTime |-> Absent]

\* generateRequestId(): an id no stored request has (the smallest stands for
\* the random one)
UsedIds(rs) == { r.requestId : r \in rs }
CanGenerate(rs) == ReqIds \ UsedIds(rs) # {}
\* an id generator that can return the id of a stored request
generateRequestIdReused(rs) ==
    IF rs # {} THEN MaxOf(UsedIds(rs))
    ELSE CHOOSE i \in ReqIds : \A j \in ReqIds : i <= j

generateRequestId(rs) == CHOOSE i \in ReqIds \ UsedIds(rs) : \A j \in ReqIds \ UsedIds(rs) : i <= j

\* existingRequest?.requestId || generateRequestId() on a row of the
\* 'All Codes' view, which has an id but no requestId: an id generated and
\* never stored
UnstoredId == 0

\* an edit offered on every status a change request is not offered on
canEditMyUnlessChange(status) == status \notin {"approved", "sap-updated", "completed"}

\* RequestorDashboard.canEdit, view 'my' and view 'all'
canEditMy(status) == status \notin {"approved", "rejected", "sap-updated", "completed"}
canEditAll(status) == status \in {"approved", "sap-updated", "completed"}

\* a row of getRequestsWithDetails
RequestWithDetails(rs, ds, id) ==
    LET r == GetRequest(rs, id)
    IN [id |-> r.requestId, type |-> r.type, status |-> r.status,
        createdBy |-> r.createdBy, createdAt |-> r.createdAt, updatedAt |-> r.updatedAt,
        details |-> IF HasDetails(ds, r.type, id)
                    THEN getLatestRequestDetails(ds, r.type, id) ELSE EmptyObject]

\* loadExistingData: originalData is the latest stored details; without any,
\* a change request takes the row's details ({}), an edit keeps null
LoadOriginalData(ds, type, id, isChangeRequest) ==
    IF HasDetails(ds, type, id) THEN getLatestRequestDetails(ds, type, id)
    ELSE IF isChangeRequest THEN EmptyObject ELSE NoRecord

formsOnly == UNCHANGED <<users, requests, details, approvals, historyLogs, notifications,
                         dbInstance, now, itRequests, apRequests, usersList, deleted, fn, last>>

\* An open form is kept as what handleSubmit reads of it: of existingRequest
\* the requestId, status, createdAt and version (a row of view 'all' has
\* none of requestId and version), and originalData for a change request.
\* forms is the bag of the open edit and change forms over all tabs; the
\* form of a new request holds nothing of the store until it is submitted.
CreateForm(type) == [kind |-> "create", type |-> type]

EditForm(r) ==
    [kind |-> "edit", type |-> r.type, requestId |-> r.requestId, status |-> r.status,
     createdAt |-> r.createdAt, version |-> r.version]

ChangeForm(row, originalData) ==
    [kind |-> "change", type |-> row.type, id |-> row.id, originalData |-> originalData]

\* the edit button of view 'my' on a row of getRequestsByUser(userEmail),
\* with fewer than limit forms open
OpenEditWithin(limit, id) ==
    /\ BagCardinality(forms) < limit
    /\ HasRequest(requests, id)
    /\ LET r == GetRequest(requests, id)
       IN /\ r.createdBy = Requestor
          /\ canEditMy(r.status)
          /\ forms' = forms (+) SetToBag({EditForm(r)})
    /\ formsOnly

OpenEdit(id) == OpenEditWithin(MaxOpenForms, id)

\* the Change Request button of view 'all' on a row of getRequestsWithDetails,
\* with fewer than limit forms open
OpenChangeWithin(limit, id) ==
    /\ BagCardinality(forms) < limit
    /\ HasRequest(requests, id)
    /\ LET row == RequestWithDetails(requests, details, id)
       IN /\ canEditAll(row.status)
          /\ forms' = forms (+) SetToBag({ChangeForm(row,
                          LoadOriginalData(details, row.type, id, TRUE))})
    /\ formsOnly

OpenChange(id) == OpenChangeWithin(MaxOpenForms, id)

\* onOpenChange(false)
CloseForm(f) ==
    /\ BagIn(f, forms)
    /\ forms' = forms (-) SetToBag({f})
    /\ formsOnly

\* the forms that can be submitted: an open one, or a new request's
Submittable == BagToSet(forms) \cup { CreateForm(type) : type \in Types }

\* onSuccess / onOpenChange(false) after a submission
Closing(f) == IF f.kind = "create" THEN forms ELSE forms (-) SetToBag({f})

submitFrame == UNCHANGED <<users, approvals, dbInstance, itRequests, apRequests,
                            usersList, deleted, fn>>

\* new Date() of a handler that writes: no two handlers read the same
\* millisecond
Clock == now <= MaxTime /\ now' = now + 1

\* handleCreateClick with a form validateForm refuses: nothing is submitted
SubmitInvalid(f, formData) ==
    /\ ~validateForm(f.type, formData)
    /\ last' = [NoOp EXCEPT !.op = "validateForm:refused",
                             !.arg = IF f.type = "company"
                                     THEN formData.shareholdingPercentage.s ELSE ""]
    /\ UNCHANGED <<requests, details, historyLogs, notifications, forms, now>>
    /\ submitFrame

\* a refusal that leaves a 'create' log behind
SubmitNoChangesLogged(f, formData) ==
    /\ validateForm(f.type, formData)
    /\ f.kind = "change"
    /\ ~compareObjects(f.originalData, DbFormData(f.type, formData)).hasChanges
    /\ historyLogs' = saveHistoryLog(historyLogs,
           [requestId |-> f.id, timestamp |-> now, action |-> "create",
            user |-> Requestor, metadata |-> [isChangeRequest |-> TRUE]])
    /\ last' = [NoOp EXCEPT !.op = "handleSubmit:nochanges", !.id = f.id]
    /\ Clock
    /\ UNCHANGED <<requests, details, notifications, forms>>
    /\ submitFrame

\* handleSubmit, change request branch, compareObjects reports no changes
SubmitNoChanges(f, formData) ==
    /\ validateForm(f.type, formData)
    /\ f.kind = "change"
    /\ ~compareObjects(f.originalData, DbFormData(f.type, formData)).hasChanges
    /\ last' = [NoOp EXCEPT !.op = "handleSubmit:nochanges", !.id = f.id]
    /\ UNCHANGED <<requests, details, historyLogs, notifications, forms, now>>
    /\ submitFrame

\* handleSubmit, change request branch: a new request, its details, the
\* 'create' log and the notifications
SubmitChangeRequest(f, formData) ==
    /\ validateForm(f.type, formData)
    /\ f.kind = "change"
    /\ CanGenerate(requests)
    /\ LET type == f.type
           userEmail == Requestor
           requestId == IF "requestId" \in DOMAIN f THEN f.requestId ELSE UnstoredId
           timestamp == now
           comparison == compareObjects(f.originalData, DbFormData(type, formData))
           newRequestId == generateRequestId(requests)
           changeRequest == NewRequest(newRequestId, type,
                                       <<"Change Request", FormCode(type, formData)>>,
                                       "pending-secretary", userEmail, timestamp, timestamp, 1)
           rs1 == saveRequest(requests, changeRequest)
       IN /\ comparison.hasChanges
          /\ requests' = rs1
          /\ details' = saveDetails(details, type, DetailsRecord(type, newRequestId, formData, 1))
          /\ historyLogs' = saveHistoryLog(historyLogs,
                 [requestId |-> newRequestId, timestamp |-> timestamp,
                  action |-> "create", user |-> userEmail,
                  metadata |-> [isChangeRequest |-> TRUE, originalRequestId |-> requestId,
                                changes |-> comparison.changes]])
          /\ notifications' = sendNotificationToAllStakeholders(
                 notifications, rs1, newRequestId, "change_request", userEmail, now)
          /\ last' = [op |-> "handleSubmit:change", id |-> newRequestId, who |-> "",
                      arg |-> ToString(f.id)]
    /\ forms' = Closing(f)
    /\ Clock
    /\ submitFrame

\* handleSubmit, regular create or edit: the request (its status and
\* createdAt copied from existingRequest, its version one more), the details
\* of that version, the history log, and for a create the notifications
SubmitRegular(f, formData) ==
    /\ validateForm(f.type, formData)
    /\ f.kind # "change"
    /\ "requestId" \notin DOMAIN f => CanGenerate(requests)
    /\ LET type == f.type
           userEmail == Requestor
           existing == f.kind # "create"
           requestId == IF "requestId" \in DOMAIN f
                        THEN f.requestId ELSE generateRequestId(requests)
           timestamp == now
           version == (IF "version" \in DOMAIN f THEN f.version ELSE 0) + 1
           request == NewRequest(requestId, type,
                          <<IF type = "plant" THEN "Plant Code" ELSE "Company Code",
                            FormCode(type, formData)>>,
                          IF f.kind = "edit" THEN f.status ELSE "pending-secretary",
                          userEmail,
                          IF f.kind = "edit" THEN f.createdAt ELSE timestamp,
                          timestamp, version)
           rs1 == saveRequest(requests, request)
       IN /\ version <= MaxVersion
          /\ requests' = rs1
          /\ details' = saveDetails(details, type, DetailsRecord(type, requestId, formData, version))
          /\ historyLogs' = saveHistoryLog(historyLogs,
                 [requestId |-> requestId, timestamp |-> timestamp,
                  action |-> IF existing THEN "edit" ELSE "create", user |-> userEmail,
                  metadata |-> [version |-> version]])
          /\ notifications' =
                 IF existing THEN notifications
                 ELSE sendNotificationToAllStakeholders(
                          notifications, rs1, requestId, "request_submitted", userEmail, now)
          /\ last' = [op |-> IF existing THEN "handleSubmit:edit" ELSE "handleSubmit:create",
                      id |-> requestId, who |-> "", arg |-> ""]
    /\ forms' = Closing(f)
    /\ Clock
    /\ submitFrame

\* the awaited writes of handleSubmit in their order: saveRequest, the
\* details, saveHistoryLog, the first notification. Each is a transaction of
\* its own; when one rejects, the writes before it stay, the catch block
\* toasts and the form stays open.
SubmitWrites == 1..4

\* the last time at which a write is rejected
MaxFailureTime == 2

\* handleSubmit, regular branch, with the write numbered failed rejecting
SubmitRegularFails(f, formData, failed) ==
    /\ validateForm(f.type, formData)
    /\ f.kind # "change"
    /\ "requestId" \notin DOMAIN f => CanGenerate(requests)
    /\ failed = 4 => f.kind = "create"
    /\ now <= MaxFailureTime
    /\ LET type == f.type
           userEmail == Requestor
           existing == f.kind # "create"
           requestId == IF "requestId" \in DOMAIN f
                        THEN f.requestId ELSE generateRequestId(requests)
           timestamp == now
           version == (IF "version" \in DOMAIN f THEN f.version ELSE 0) + 1
           request == NewRequest(requestId, type,
                          <<IF type = "plant" THEN "Plant Code" ELSE "Company Code",
                            FormCode(type, formData)>>,
                          IF f.kind = "edit" THEN f.status ELSE "pending-secretary",
                          userEmail,
                          IF f.kind = "edit" THEN f.createdAt ELSE timestamp,
                          timestamp, version)
       IN /\ version <= MaxVersion
          /\ requests' = IF failed > 1 THEN saveRequest(requests, request) ELSE requests
          /\ details' = IF failed > 2
                        THEN saveDetails(details, type,
                                         DetailsRecord(type, requestId, formData, version))
                        ELSE details
          /\ historyLogs' = IF failed > 3
                            THEN saveHistoryLog(historyLogs,
                                     [requestId |-> requestId, timestamp |-> timestamp,
                                      action |-> IF existing THEN "edit" ELSE "create",
                                      user |-> userEmail, metadata |-> [version |-> version]])
                            ELSE historyLogs
          /\ last' = [op |-> "handleSubmit:failed", id |-> requestId, who |-> "",
                      arg |-> ToString(failed)]
    /\ Clock
    /\ UNCHANGED <<notifications, forms>>
    /\ submitFrame

\* handleSubmit, change request branch, with the write numbered failed rejecting
SubmitChangeRequestFails(f, formData, failed) ==
    /\ validateForm(f.type, formData)
    /\ f.kind = "change"
    /\ now <= MaxFailureTime
    /\ CanGenerate(requests)
    /\ LET type == f.type
           userEmail == Requestor
           requestId == IF "requestId" \in DOMAIN f THEN f.requestId ELSE UnstoredId
           timestamp == now
           comparison == compareObjects(f.originalData, DbFormData(type, formData))
           newRequestId == generateRequestId(requests)
           changeRequest == NewRequest(newRequestId, type,
                                       <<"Change Request", FormCode(type, formData)>>,
                                       "pending-secretary", userEmail, timestamp, timestamp, 1)
       IN /\ comparison.hasChanges
          /\ requests' = IF failed > 1 THEN saveRequest(requests, changeRequest) ELSE requests
          /\ details' = IF failed > 2
                        THEN saveDetails(details, type,
                                         DetailsRecord(type, newRequestId, formData, 1))
                        ELSE details
          /\ historyLogs' = IF failed > 3
                            THEN saveHistoryLog(historyLogs,
                                     [requestId |-> newRequestId, timestamp |-> timestamp,
                                      action |-> "create", user |-> userEmail,
                                      metadata |-> [isChangeRequest |-> TRUE,
                                                    originalRequestId |-> requestId,
                                                    changes |-> comparison.changes]])
                            ELSE historyLogs
          /\ last' = [op |-> "handleSubmit:failed", id |-> newRequestId, who |-> "",
                      arg |-> ToString(failed)]
    /\ Clock
    /\ UNCHANGED <<notifications, forms>>
    /\ submitFrame

-----------------------------------------------------------------------------
(* ApprovalDashboard and ITDashboard *)

\* the text of the comment / update note
Comments == {"", " ", "ok"}

\* a text passed on untrimmed
TrimNothing(c) == c

\* String.prototype.trim on the texts drawn
Trim(c) == IF c = " " THEN "" ELSE c

Decisions == {"approved", "rejected"}

\* pendingRequests: the rows of the loaded list that canApprove accepts
PendingRows(rs, userRole) ==
    { [id |-> r.requestId, status |-> r.status] : r \in { x \in rs : canApprove(x.status, userRole) } }

\* approvedRequests: the rows of the loaded list with status 'approved'
ApprovedRows(rs) == { r.requestId : r \in { x \in rs : x.status = "approved" } }

dashboardFrame == UNCHANGED <<users, details, notifications, dbInstance, forms,
                               usersList, deleted, fn>>

\* ApprovalDashboard.loadRequests (on mount)
loadApprovals(userRole) ==
    /\ apRequests[userRole] # PendingRows(requests, userRole)
    /\ apRequests' = [apRequests EXCEPT ![userRole] = PendingRows(requests, userRole)]
    /\ UNCHANGED <<requests, approvals, historyLogs, itRequests, last, now>>
    /\ dashboardFrame

\* ApprovalDashboard.handleApproval on a row of Pending My Review
handleApproval(userRole, row, decision, approvalComment) ==
    /\ row \in apRequests[userRole]
    /\ IF Trim(approvalComment) = ""
       THEN /\ last' = [op |-> "handleApproval:nocomment", id |-> row.id,
                        who |-> userRole, arg |-> approvalComment]
            /\ UNCHANGED <<requests, approvals, historyLogs, apRequests, now>>
       ELSE LET userEmail == RoleEmail(userRole)
                nextStatus == getNextStatus(row.status, userRole, decision)
            IN /\ approvals' = addApprovalRecord(approvals, row.id, userEmail, userRole,
                                                 decision, approvalComment, now)
               /\ historyLogs' = addApprovalLog(historyLogs, row.id, userEmail, userRole,
                                                decision, approvalComment, now)
               /\ requests' = updateRequestStatus(requests, row.id, nextStatus, now)
               /\ apRequests' = [apRequests EXCEPT ![userRole] = PendingRows(requests', userRole)]
               /\ last' = [op |-> "handleApproval", id |-> row.id,
                           who |-> userRole, arg |-> decision]
               /\ Clock
    /\ UNCHANGED itRequests
    /\ dashboardFrame

\* the IT dashboards open at once (tabs, or two users of role it)
ITSessions == {"it1", "it2"}

\* ITDashboard.loadRequests (on mount)
loadSAPUpdates(d) ==
    /\ itRequests[d] # ApprovedRows(requests)
    /\ itRequests' = [itRequests EXCEPT ![d] = ApprovedRows(requests)]
    /\ UNCHANGED <<requests, approvals, historyLogs, apRequests, last, now>>
    /\ dashboardFrame

\* ITDashboard.handleSAPUpdate on a row of Pending SAP Updates
handleSAPUpdate(d, requestId, sapUpdateNote) ==
    /\ requestId \in itRequests[d]
    /\ IF Trim(sapUpdateNote) = ""
       THEN /\ last' = [op |-> "handleSAPUpdate:nonote", id |-> requestId,
                        who |-> "it", arg |-> sapUpdateNote]
            /\ UNCHANGED <<requests, approvals, historyLogs, itRequests, now>>
       ELSE /\ approvals' = addApprovalRecord(approvals, requestId, "it@pel.com", "it",
                                              "approve", sapUpdateNote, now)
            /\ historyLogs' = addApprovalLog(historyLogs, requestId, "it@pel.com", "it",
                                             "approve", sapUpdateNote, now)
            /\ requests' = updateRequestStatus(requests, requestId, "sap-updated", now)
            /\ itRequests' = [itRequests EXCEPT ![d] = ApprovedRows(requests')]
            /\ last' = [op |-> "handleSAPUpdate", id |-> requestId, who |-> "", arg |-> ""]
            /\ Clock
    /\ UNCHANGED apRequests
    /\ dashboardFrame

-----------------------------------------------------------------------------
(* The workflow specification *)

\* The object database outlives the page and the revision that wrote it
\* (openDB('PELWorkflow', 1), no migration): at start-up it is empty or holds
\* a request that an earlier session left in any status, with the details of
\* its version and its 'create' log.
SeedData(type) ==
    IF type = "plant"
    THEN [plantCode |-> Sv("P1"), nameOfPlant |-> Sv("N1")]
    ELSE [companyCode |-> Sv("C1"), companyName |-> Sv("M1"),
          shareholdingPercentage |-> Sv("51")]

SeedId == generateRequestId({})

\* one status of each kind the tables and guards tell apart
SeedStatuses ==
    ChainSet \cup {"draft", "pending-secretary", "rejected", "sap-updated", "completed"}

SeedRequest(type, status) ==
    [ NewRequest(SeedId, type,
                 <<IF type = "plant" THEN "Plant Code" ELSE "Company Code",
                   FormCode(type, SeedData(type))>>,
                 status, "req@pel.com", 0, 0, 1)
      EXCEPT !.isCompleted = (status = "completed"),
             !.completedAt = IF status = "completed" THEN 0 ELSE Absent,
             !.turnaroundTime = IF status = "completed" THEN 0 ELSE Absent ]

NoDetails == [plant |-> {}, company |-> {}]

Init ==
    /\ users = DefaultUsers
    /\ \/ /\ requests = {}
          /\ details = NoDetails
          /\ historyLogs = {}
       \/ \E type \in Types, status \in SeedStatuses :
             /\ requests = {SeedRequest(type, status)}
             /\ details = saveDetails(NoDetails, type,
                                      DetailsRecord(type, SeedId, SeedData(type), 1))
             /\ historyLogs = {[requestId |-> SeedId, timestamp |-> 0, action |-> "create",
                                user |-> "req@pel.com", metadata |-> [version |-> 1]]}
    /\ approvals = {}
    /\ notifications = {}
    /\ dbInstance = TRUE
    /\ now = 1
    /\ itRequests = [d \in ITSessions |-> {}]
    /\ apRequests = [r \in ApproverRoles |-> {}]
    /\ forms = EmptyBag
    /\ usersList = {}
    /\ deleted = {}
    /\ fn = NoOp
    /\ last = NoOp

Next ==
    \/ \E id \in ReqIds : OpenEdit(id)
    \/ \E id \in ReqIds : OpenChange(id)
    \/ \E f \in BagToSet(forms) : CloseForm(f)
    \/ \E f \in Submittable : \E formData \in FormInputs(f.type) : SubmitInvalid(f, formData)
    \/ \E f \in Submittable : \E formData \in FormInputs(f.type) : SubmitNoChanges(f, formData)
    \/ \E f \in Submittable : \E formData \in FormInputs(f.type) : SubmitChangeRequest(f, formData)
    \/ \E f \in Submittable : \E formData \in FormInputs(f.type) : SubmitRegular(f, formData)
    \/ \E userRole \in ApproverRoles : loadApprovals(userRole)
    \/ \E userRole \in ApproverRoles : \E row \in apRequests[userRole] :
          \E decision \in Decisions, c \in Comments : handleApproval(userRole, row, decision, c)
    \/ \E d \in ITSessions : loadSAPUpdates(d)
    \/ \E d \in ITSessions : \E id \in itRequests[d], note \in Comments :
          handleSAPUpdate(d, id, note)

Spec == Init /\ [][Next]_vars

\* the approvals store holds an 'approved' decision of each of the four
\* approvers for the request, given one after the other in the order of the
\* chain, and the request's history is its creation and these four approvals
ApprovedInTurn(id) ==
    /\ HasRequest(requests, id)
    /\ \A role \in ApproverRoles :
          \E a \in approvals : /\ a.requestId = id /\ a.approverEmail = RoleEmail(role)
                               /\ a.decision = "approved"
    /\ LET at(role) == (CHOOSE a \in approvals :
                           a.requestId = id /\ a.approverEmail = RoleEmail(role)).timestamp
       IN at("secretary") < at("finance") /\ at("finance") < at("raghu")
            /\ at("raghu") < at("siva")
    /\ Cardinality({ h \in historyLogs : h.requestId = id }) = 1 + Cardinality(ApproverRoles)

\* C2: a request taken from 'pending' through the approvals of secretary,
\* finance, raghu and siva in turn has status 'approved' and is a row of the
\* IT dashboard's Pending SAP Updates.
C2_ApprovedAfterFourApprovals ==
    \A id \in ReqIds :
        ApprovedInTurn(id) =>
            /\ Status(requests, id) = "approved"
            /\ id \in ApprovedRows(requests)

\* C3: right after a new request is submitted through a form, canApprove
\* accepts it for the secretary and for no other role, and it is a row of the
\* secretary's pending list.
C3_NewRequestAwaitsSecretary ==
    last.op = "handleSubmit:create" =>
        LET r == GetRequest(requests, last.id)
        IN /\ canApprove(r.status, "secretary")
           /\ \A role \in AllRoles \ {"secretary"} : ~canApprove(r.status, role)
           /\ [id |-> r.requestId, status |-> r.status] \in PendingRows(requests, "secretary")

\* the request with this id is written by the step, and stored with this status
WrittenWith(id, status) ==
    /\ HasRequest(requests', id)
    /\ Status(requests', id) = status
    /\ ~HasRequest(requests, id) \/ GetRequest(requests, id) # GetRequest(requests', id)

\* C4: every step that stores a request with status 'sap-updated' is a
\* handleSAPUpdate of that request, taken while its stored status is
\* 'approved'.
C4_SapUpdatedOnlyFromApproved ==
    [][ \A id \in ReqIds :
          WrittenWith(id, "sap-updated") =>
              /\ last'.op = "handleSAPUpdate" /\ last'.id = id
              /\ HasRequest(requests, id) /\ Status(requests, id) = "approved" ]_vars

\* C5: after IT's SAP update of a request the stored request has
\* isCompleted = true, a completedAt time and a turnaroundTime.
C5_SapUpdateRecordsCompletion ==
    (last.op = "handleSAPUpdate" /\ HasRequest(requests, last.id)) =>
        LET r == GetRequest(requests, last.id)
        IN r.isCompleted /\ r.completedAt # Absent /\ r.turnaroundTime # Absent

\* C7: a submitted change request stores a request under an id no request
\* had, with version 1 and status 'pending-secretary'; every request stored
\* before, every details version, approval and history log stored before is
\* still stored unchanged, and what is added belongs to the new id.
C7_ChangeRequestLeavesOriginal ==
    [][ (last'.op = "handleSubmit:change" /\ now' # now) =>
          LET id == last'.id
          IN /\ ~HasRequest(requests, id) /\ HasRequest(requests', id)
             /\ GetRequest(requests', id).version = 1
             /\ Status(requests', id) = "pending-secretary"
             /\ requests' \ {GetRequest(requests', id)} = requests
             /\ \A type \in Types :
                   /\ details[type] \subseteq details'[type]
                   /\ \A d \in details'[type] \ details[type] : d.requestId = id /\ d.version = 1
             /\ approvals' = approvals
             /\ historyLogs \subseteq historyLogs'
             /\ \A h \in historyLogs' \ historyLogs : h.requestId = id ]_vars

\* a change request for a stored code has been submitted: the original and
\* the new request are both stored
C7_Witness ==
    /\ last.op = "handleSubmit:change"
    /\ HasRequest(requests, last.id)
    /\ Status(requests, last.id) = "pending-secretary"
    /\ \E r \in requests : r.requestId # last.id /\ ToString(r.requestId) = last.arg
                              /\ canEditAll(r.status)

\* a submission of the company form with these inputs writes
\* C13: in the approval dashboard a reject decision leaves the request with
\* status 'rejected' whatever status was stored, and an approve decision on
\* a request whose stored status is none of the chain's statuses leaves the
\* stored status as it was.
C13_RejectAndUnknownStatus ==
    [][ (last'.op = "handleApproval" /\ now' # now /\ HasRequest(requests, last'.id)) =>
          LET id == last'.id
          IN /\ last'.arg = "rejected" => Status(requests', id) = "rejected"
             /\ (last'.arg = "approved" /\ Status(requests, id) \notin ChainSet)
                   => Status(requests', id) = Status(requests, id) ]_vars

\* C14: every decision recorded through addApproval is logged in the
\* request's history under the matching action: 'approve' for an approver's
\* approval in the approval dashboard, 'reject' for an approver's rejection,
\* 'update-sap' for IT's SAP update.
C14_DecisionLoggedUnderMatchingAction ==
    [][ (last'.op \in {"handleApproval", "handleSAPUpdate"} /\ now' # now) =>
          \E h \in historyLogs' :
              /\ h.requestId = last'.id
              /\ h.timestamp = now
              /\ h.action = (IF last'.op = "handleSAPUpdate" THEN "update-sap"
                             ELSE IF last'.arg = "approved" THEN "approve"
                             ELSE "reject") ]_vars

\* C15: every approval record in the store has decision 'approve' or
\* 'reject', whichever dashboard recorded it, and the record of an approver's
\* approval is shown as Approved in the request-details dialog.
C15_ApprovalDecisionValues ==
    /\ \A a \in approvals : a.decision \in ApprovalDecisions
    /\ (last.op = "handleApproval" /\ last.arg = "approved") =>
          \A a \in approvals :
              (a.requestId = last.id /\ a.approverEmail = RoleEmail(last.who))
                  => DecisionBadge(a.decision) = "Approved"

\* C16: the history log written for a change request records as
\* metadata.originalRequestId the requestId of the stored request the change
\* was raised from, the row chosen in the 'All Codes' view.
C16_ChangeLogNamesOriginal ==
    [][ (last'.op = "handleSubmit:change" /\ now' # now) =>
          \E h \in historyLogs' :
              /\ h.requestId = last'.id
              /\ h.timestamp = now
              /\ h.metadata.isChangeRequest
              /\ HasRequest(requests, h.metadata.originalRequestId)
              /\ ToString(h.metadata.originalRequestId) = last'.arg ]_vars

\* C17: a change request whose submitted values equal the original's
\* values (compareObjects reports no changes) is refused: the submission
\* takes neither the change-request nor the regular branch, and no request,
\* details record, history log or notification is written.
C17_NoChangesRefused ==
    [][ \A f \in Submittable : \A formData \in FormInputs(f.type) :
          (/\ f.kind = "change"
           /\ validateForm(f.type, formData)
           /\ ~compareObjects(f.originalData, DbFormData(f.type, formData)).hasChanges)
          => /\ ~SubmitChangeRequest(f, formData)
             /\ ~SubmitRegular(f, formData)
             /\ SubmitNoChanges(f, formData) =>
                   <<requests, details, approvals, historyLogs, notifications>>' =
                   <<requests, details, approvals, historyLogs, notifications>> ]_vars

C17_Witness ==
    /\ last.op = "handleSubmit:nochanges"
    /\ HasRequest(requests, last.id)
    /\ \E f \in BagToSet(forms) : f.kind = "change" /\ f.id = last.id

\* C19: an approval decision submitted with an empty or whitespace-only
\* comment, and an SAP update submitted with an empty or whitespace-only
\* note, write nothing: no approval record, no history log, no status change.
C19_BlankCommentWritesNothing ==
    [][ /\ \A userRole \in ApproverRoles : \A row \in apRequests[userRole] :
              \A decision \in Decisions, c \in {"", " "} :
                  handleApproval(userRole, row, decision, c) =>
                      <<requests, approvals, historyLogs>>' = <<requests, approvals, historyLogs>>
        /\ \A d \in ITSessions : \A id \in itRequests[d] : \A note \in {"", " "} :
              handleSAPUpdate(d, id, note) =>
                  <<requests, approvals, historyLogs>>' = <<requests, approvals, historyLogs>> ]_vars

C19_Witness ==
    /\ last.op \in {"handleApproval:nocomment", "handleSAPUpdate:nonote"}
    /\ last.arg = " "
    /\ HasRequest(requests, last.id)
    /\ approvals = {}

\* C21: a request stored with status 'rejected', 'approved', 'sap-updated'
\* or 'completed' is not stored with a pending status by a form submission,
\* under every interleaving of an owner's edit, opened from a list loaded
\* earlier, with the approvers' and IT's actions.
C21_FinalStaysFinal ==
    [][ (/\ last'.op \in {"handleSubmit:edit", "handleSubmit:create", "handleSubmit:change"}
         /\ now' # now)
        => \A r \in requests :
              r.status \in {"rejected", "approved", "sap-updated", "completed"} =>
                  Status(requests', r.requestId) \notin
                      {"pending", "pending-secretary", "pending-siva", "pending-raghu",
                       "pending-manoj", "pending-finance"} ]_vars

CompanySubmitted(f, formData) ==
    SubmitRegular(f, formData) \/ SubmitChangeRequest(f, formData)

\* C11: every stored company code details record has a shareholdingPercentage
\* that is a number of at least 51, and no step submits a company form whose
\* percentage parses to less than 51 or to no number: such a form is refused
\* and the step writes nothing.
C11_ShareholdingAtLeast51 ==
    [][ /\ \A d \in details'["company"] :
              d.shareholdingPercentage.k = "n" /\ d.shareholdingPercentage.n >= 51
        /\ \A f \in Submittable : \A formData \in FormInputs(f.type) :
              (/\ f.type = "company"
               /\ LET percentage == parseFloat(formData.shareholdingPercentage.s)
                  IN percentage.k # "n" \/ percentage.n < 51)
              => /\ ~CompanySubmitted(f, formData)
                 /\ SubmitInvalid(f, formData) =>
                       <<requests, details, approvals, historyLogs, notifications>>' =
                       <<requests, details, approvals, historyLogs, notifications>> ]_vars

\* a company form with 50 % has been refused while a company code with at
\* least 51 % is stored
C11_Witness ==
    /\ last.op = "validateForm:refused" /\ last.arg = "50"
    /\ \E d \in details["company"] : d.shareholdingPercentage.n >= 51

-----------------------------------------------------------------------------
(* The requestor dashboard on a store whose writes can be rejected *)

StorageFailureNext ==
    \/ \E id \in ReqIds : OpenEdit(id)
    \/ \E id \in ReqIds : OpenChange(id)
    \/ \E f \in BagToSet(forms) : CloseForm(f)
    \/ \E f \in Submittable : \E formData \in FormInputs(f.type) : SubmitInvalid(f, formData)
    \/ \E f \in Submittable : \E formData \in FormInputs(f.type) : SubmitNoChanges(f, formData)
    \/ \E f \in Submittable : \E formData \in FormInputs(f.type) : SubmitChangeRequest(f, formData)
    \/ \E f \in Submittable : \E formData \in FormInputs(f.type) : SubmitRegular(f, formData)
    \/ \E f \in Submittable : \E formData \in FormInputs(f.type) : \E failed \in SubmitWrites :
          SubmitRegularFails(f, formData, failed)
    \/ \E f \in Submittable : \E formData \in FormInputs(f.type) : \E failed \in SubmitWrites :
          SubmitChangeRequestFails(f, formData, failed)

StorageFailureSpec == Init /\ [][StorageFailureNext]_vars

\* C22: in every reachable state, also after a storage write of a form
\* submission was rejected part-way, every stored request has a details
\* record of the request's version, and getLatestRequestDetails returns it.
C22_RequestHasDetailsOfItsVersion ==
    \A r \in requests :
        /\ HasDetails(details, r.type, r.requestId)
        /\ getLatestRequestDetails(details, r.type, r.requestId).version = r.version

-----------------------------------------------------------------------------
(* The requestor dashboard open in several tabs, the other dashboards idle *)

MaxTabs == 2

RequestorNext ==
    \/ \E id \in ReqIds : OpenEditWithin(MaxTabs, id)
    \/ \E id \in ReqIds : OpenChangeWithin(MaxTabs, id)
    \/ \E f \in BagToSet(forms) : CloseForm(f)
    \/ \E f \in Submittable : \E formData \in FormInputs(f.type) : SubmitInvalid(f, formData)
    \/ \E f \in Submittable : \E formData \in FormInputs(f.type) : SubmitNoChanges(f, formData)
    \/ \E f \in Submittable : \E formData \in FormInputs(f.type) : SubmitChangeRequest(f, formData)
    \/ \E f \in Submittable : \E formData \in FormInputs(f.type) : SubmitRegular(f, formData)

RequestorSpec == Init /\ [][RequestorNext]_vars

\* C12: a confirmed edit of a stored request stores it with a version one
\* more than the version stored before the edit and writes a details record
\* of that request and version, and every details record stored before the
\* edit is still stored unchanged; also for edits from forms opened before
\* another edit of the same request.
C12_EditCreatesNewVersion ==
    [][ (last'.op = "handleSubmit:edit" /\ now' # now /\ HasRequest(requests, last'.id)) =>
          LET id == last'.id
              before == GetRequest(requests, id)
              after == GetRequest(requests', id)
          IN /\ after.version = before.version + 1
             /\ \E d \in details'[after.type] :
                   d.requestId = id /\ d.version = after.version
             /\ \A type \in Types : details[type] \subseteq details'[type] ]_vars

\* the inputs of the Add User dialog and the role select
NewUserEmails == {"", "fin@pel.com"}
NewUserRoles == {"", "finance"}

workflowUnchanged ==
    UNCHANGED <<requests, details, approvals, historyLogs, notifications,
                now, itRequests, apRequests, forms, fn>>

\* a page (re)load drops the module-level dbInstance
Reload ==
    /\ dbInstance
    /\ dbInstance' = FALSE
    /\ usersList' = {}
    /\ last' = [NoOp EXCEPT !.op = "reload"]
    /\ UNCHANGED <<users, deleted>>
    /\ workflowUnchanged

\* App.initializeApp -> initDB: openDB, then initializeDefaultUsers
initDB ==
    /\ ~dbInstance
    /\ dbInstance' = TRUE
    /\ users' = initializeDefaultUsers(users)
    /\ last' = [NoOp EXCEPT !.op = "initDB"]
    /\ UNCHANGED <<usersList, deleted>>
    /\ workflowUnchanged

\* UserManagement.loadUsers (on mount)
loadUsers ==
    /\ dbInstance
    /\ usersList # users
    /\ usersList' = users
    /\ last' = [NoOp EXCEPT !.op = "loadUsers"]
    /\ UNCHANGED <<users, dbInstance, deleted>>
    /\ workflowUnchanged

\* UserManagement.handleAddUser
handleAddUser(newUserEmail, newUserRole) ==
    /\ dbInstance
    /\ IF newUserEmail = "" \/ newUserRole = "" \/ HasUser(users, newUserEmail)
         THEN /\ UNCHANGED <<users, usersList, deleted>>
              /\ last' = [NoOp EXCEPT !.op = "handleAddUser:refused", !.who = newUserEmail]
         ELSE /\ users' = createUser(users, newUserEmail, newUserRole)
              /\ usersList' = users'
              /\ deleted' = deleted \ {newUserEmail}
              /\ last' = [NoOp EXCEPT !.op = "handleAddUser", !.who = newUserEmail]
    /\ UNCHANGED dbInstance
    /\ workflowUnchanged

\* UserManagement.handleDeleteUser, from a row of the loaded list (the
\* delete button is rendered for user.role !== 'admin')
handleDeleteUser(email) ==
    /\ dbInstance
    /\ \E u \in usersList : u.email = email /\ u.role # "admin"
    /\ users' = deleteUser(users, email)
    /\ usersList' = users'
    /\ deleted' = deleted \cup {email}
    /\ last' = [NoOp EXCEPT !.op = "handleDeleteUser", !.who = email]
    /\ UNCHANGED dbInstance
    /\ workflowUnchanged

UserInit ==
    /\ users = DefaultUsers
    /\ requests = {} /\ details = {} /\ approvals = {}
    /\ historyLogs = {} /\ notifications = {}
    /\ dbInstance = TRUE
    /\ now = 0
    /\ itRequests = {} /\ apRequests = {} /\ forms = EmptyBag
    /\ usersList = {}
    /\ deleted = {}
    /\ fn = NoOp
    /\ last = NoOp

UserNext ==
    \/ Reload
    \/ initDB
    \/ loadUsers
    \/ \E e \in NewUserEmails, r \in NewUserRoles : handleAddUser(e, r)
    \/ \E e \in {u.email : u \in usersList} : handleDeleteUser(e)

UserSpec == UserInit /\ [][UserNext]_vars

\* C10: a user removed by deleteUser stays removed in every later state
\* (re-initialisation included) until createUser adds that email again.
C10_DeletedStaysDeleted ==
    \A e \in deleted : ~HasUser(users, e)

-----------------------------------------------------------------------------
(* The storage functions called on a stored database *)

MaxCalls == 2

\* the session starts milliseconds, a day or two days after the seed was
\* written
ApiStartTimes == {2, MsPerDay + 1, 2 * MsPerDay + 1}

\* the statuses and users the calls are made with
ApiStatuses == {"approved", "rejected", "sap-updated"}
ApiUsers == {"it@pel.com", "aarnav@pel.com"}

apiFrame == UNCHANGED <<users, dbInstance, itRequests, apRequests, forms, usersList,
                         deleted, fn>>

\* new Date() of a call; at most MaxCalls calls follow the first
ApiClock == (now % MsPerDay) <= MaxCalls + 1 /\ now' = now + 1

ApiUpdateRequestStatus(requestId, status) ==
    /\ requests' = updateRequestStatus(requests, requestId, status, now)
    /\ last' = [op |-> "updateRequestStatus", id |-> requestId, who |-> "", arg |-> status]
    /\ ApiClock
    /\ UNCHANGED <<details, approvals, historyLogs, notifications>>
    /\ apiFrame

ApiMarkRequestCompleted(requestId, completedBy) ==
    /\ requests' = markRequestCompleted(requests, requestId, now)
    /\ historyLogs' = markRequestCompletedLog(historyLogs, requests, requestId, completedBy, now)
    /\ last' = [op |-> "markRequestCompleted", id |-> requestId, who |-> completedBy,
                arg |-> ""]
    /\ ApiClock
    /\ UNCHANGED <<details, approvals, notifications>>
    /\ apiFrame

\* a second stored request, approved by the secretary and notified of
OtherRequest ==
    NewRequest(MaxReq, "company", <<"Company Code", "C1">>, "pending", "req@pel.com", 0, 0, 1)

ApiInit ==
    /\ users = DefaultUsers
    /\ \E type \in Types, status \in SeedStatuses, createdAt \in {0, 1}, both \in BOOLEAN :
          /\ requests = {[SeedRequest(type, status) EXCEPT !.createdAt = createdAt,
                                                           !.updatedAt = createdAt]}
                            \cup (IF both THEN {OtherRequest} ELSE {})
          /\ details = saveDetails(NoDetails, type,
                                   DetailsRecord(type, SeedId, SeedData(type), 1))
          /\ historyLogs = {[requestId |-> SeedId, timestamp |-> createdAt, action |-> "create",
                             user |-> "req@pel.com", metadata |-> [version |-> 1]]}
    /\ approvals = addApprovalRecord({}, MaxReq, "sec@pel.com", "secretary", "approved", "ok", 0)
    /\ notifications = sendNotificationToAllStakeholders({}, requests, SeedId,
                                                         "request_submitted", "req@pel.com", 0)
    /\ dbInstance = TRUE
    /\ now \in ApiStartTimes
    /\ itRequests = [d \in ITSessions |-> {}]
    /\ apRequests = [r \in ApproverRoles |-> {}]
    /\ forms = EmptyBag
    /\ usersList = {}
    /\ deleted = {}
    /\ fn = NoOp
    /\ last = NoOp

ApiNext ==
    \/ \E requestId \in ReqIds, status \in ApiStatuses : ApiUpdateRequestStatus(requestId, status)
    \/ \E requestId \in ReqIds, completedBy \in ApiUsers :
          ApiMarkRequestCompleted(requestId, completedBy)

ApiSpec == ApiInit /\ [][ApiNext]_vars

\* C6: markRequestCompleted of a stored request stores it with status
\* 'completed', isCompleted = true, completedAt and updatedAt both the time
\* of the call, and turnaroundTime the least whole number of days that is
\* not less than the time from createdAt to completedAt (so not negative);
\* and it adds one history log, of action 'update-sap' by the given user.
C6_MarkRequestCompleted ==
    [][ (last'.op = "markRequestCompleted" /\ HasRequest(requests, last'.id)) =>
          LET id == last'.id
              r == GetRequest(requests', id)
              elapsed == now - GetRequest(requests, id).createdAt
              added == historyLogs' \ historyLogs
          IN /\ r.status = "completed" /\ r.isCompleted
             /\ r.completedAt = now /\ r.updatedAt = now
             /\ r.turnaroundTime * MsPerDay >= elapsed
             /\ (r.turnaroundTime - 1) * MsPerDay < elapsed
             /\ elapsed >= 0 => r.turnaroundTime >= 0
             /\ historyLogs \subseteq historyLogs'
             /\ Cardinality(added) = 1
             /\ \A h \in added : /\ h.requestId = id /\ h.action = "update-sap"
                                 /\ h.user = last'.who ]_vars

\* a request created a day and a millisecond earlier has been completed:
\* its turnaround is two days
C6_Witness ==
    /\ last.op = "markRequestCompleted" /\ HasRequest(requests, last.id)
    /\ LET r == GetRequest(requests, last.id)
       IN /\ r.status = "completed"
          /\ r.completedAt - r.createdAt = MsPerDay + 1
          /\ r.turnaroundTime = 2

\* C9: updateRequestStatus(id, s) changes, of all that is stored, the status
\* and updatedAt of the request with that id and nothing else; with no such
\* request nothing stored changes.
C9_UpdateRequestStatusFrame ==
    [][ last'.op = "updateRequestStatus" =>
          LET id == last'.id
          IN /\ <<details, approvals, historyLogs, notifications, users>>' =
                    <<details, approvals, historyLogs, notifications, users>>
             /\ ~HasRequest(requests, id) => requests' = requests
             /\ HasRequest(requests, id) =>
                   /\ requests' = saveRequest(requests, GetRequest(requests', id))
                   /\ HasRequest(requests', id)
                   /\ \A field \in DOMAIN GetRequest(requests, id) \ {"status", "updatedAt"} :
                         GetRequest(requests', id)[field] = GetRequest(requests, id)[field]
                   /\ DOMAIN GetRequest(requests', id) = DOMAIN GetRequest(requests, id)
                   /\ Status(requests', id) = last'.arg
                   /\ GetRequest(requests', id).updatedAt = now ]_vars

\* the status of one of two stored requests has been updated
C9_Witness ==
    /\ last.op = "updateRequestStatus" /\ HasRequest(requests, last.id)
    /\ Status(requests, last.id) = last.arg
    /\ GetRequest(requests, last.id).updatedAt = now - 1
    /\ \E r \in requests : r.requestId # last.id

\* updateRequestStatus has been called with an id that no request has
C9_WitnessMissing ==
    /\ last.op = "updateRequestStatus" /\ ~HasRequest(requests, last.id)

-----------------------------------------------------------------------------
(* The pending list of a role, read from a stored database *)

\* the roles a session can ask with: those of the users, of the approval
\* dashboard, and one no table knows
QueryRoles == AllRoles \cup {"guest"}

\* the statuses of the stored requests: those the storage layer declares
\* and the one of the table of finance
QueryStatuses == StorageStatuses \cup {"pending-finance"}

QueryRequest(id, status, createdAt) ==
    NewRequest(id, "plant", <<"Plant Code", "P1">>, status, "req@pel.com",
               createdAt, createdAt, 1)

CallGetPendingRequestsForRole(role) ==
    /\ fn' = [op |-> "getPendingRequestsForRole", role |-> role,
              returned |-> getPendingRequestsForRole(requests, role)]
    /\ UNCHANGED <<users, requests, details, approvals, historyLogs, notifications,
                   dbInstance, now, itRequests, apRequests, forms, usersList, deleted, last>>

QueryInit ==
    /\ users = DefaultUsers
    /\ \E S \in SUBSET ReqIds :
          \E status \in [S -> QueryStatuses], createdAt \in [S -> {0, 1}] :
              requests = { QueryRequest(id, status[id], createdAt[id]) : id \in S }
    /\ details = [NoDetails EXCEPT !["plant"] =
                     { DetailsRecord("plant", r.requestId, SeedData("plant"), 1) : r \in requests }]
    /\ historyLogs = { [requestId |-> r.requestId, timestamp |-> r.createdAt,
                        action |-> "create", user |-> "req@pel.com",
                        metadata |-> [version |-> 1]] : r \in requests }
    /\ approvals = {}
    /\ notifications = {}
    /\ dbInstance = TRUE
    /\ now = 2
    /\ itRequests = [d \in ITSessions |-> {}]
    /\ apRequests = [r \in ApproverRoles |-> {}]
    /\ forms = EmptyBag
    /\ usersList = {}
    /\ deleted = {}
    /\ fn = NoOp
    /\ last = NoOp

QueryNext == \E role \in QueryRoles : CallGetPendingRequestsForRole(role)

QuerySpec == QueryInit /\ [][QueryNext]_vars

Elements(seq) == { seq[i] : i \in 1..Len(seq) }

\* C20: getPendingRequestsForRole(role) returns exactly the stored requests
\* whose status is the pending status of that role (secretary ->
\* pending-secretary, siva -> pending-siva, raghu -> pending-raghu, manoj ->
\* pending-manoj), each once, and the empty list for every other role.
C20_PendingRequestsForRole ==
    fn.op = "getPendingRequestsForRole" =>
        LET expected == CASE fn.role = "secretary" -> {"pending-secretary"}
                          [] fn.role = "siva" -> {"pending-siva"}
                          [] fn.role = "raghu" -> {"pending-raghu"}
                          [] fn.role = "manoj" -> {"pending-manoj"}
                          [] OTHER -> {}
        IN /\ Elements(fn.returned) = { r \in requests : r.status \in expected }
           /\ Len(fn.returned) = Cardinality(Elements(fn.returned))
           /\ fn.role \notin {"secretary", "siva", "raghu", "manoj"} => fn.returned = <<>>

\* manoj asks while one request awaits manoj and another awaits siva
C20_Witness ==
    /\ fn.op = "getPendingRequestsForRole"
    /\ fn.role = "manoj"
    /\ Len(fn.returned) = 1
    /\ \E r \in requests : r.status = "pending-siva"

-----------------------------------------------------------------------------
(* The pure functions, applied to arguments drawn from bounded sets *)

\* the values a field of an object passed to compareObjects takes
FieldValues == {Sv(""), Sv("0"), Sv("A"), Nv(0), Nv(51), NaN}

\* the fields of the objects drawn: two compared fields and a skipped one
ObjectFields == {"plantCode", "shareholdingPercentage", "version"}

Objects ==
    UNION { [F -> FieldValues] : F \in SUBSET ObjectFields }

fnFrame ==
    UNCHANGED <<users, requests, details, approvals, historyLogs, notifications,
                dbInstance, now, itRequests, apRequests, forms, usersList, deleted, last>>

\* the calls drawn: the function and its arguments
Calls ==
    { [op |-> "getNextStatus", called |-> FALSE, currentStatus |-> currentStatus,
       userRole |-> userRole, decision |-> decision] :
         currentStatus \in AllStatuses, userRole \in AllRoles, decision \in Decisions }
    \cup
    { [op |-> "canApprove", called |-> FALSE, status |-> status, userRole |-> userRole] :
         status \in AllStatuses, userRole \in AllRoles }
    \cup
    { [op |-> "compareObjects", called |-> FALSE, oldObj |-> oldObj, newObj |-> newObj] :
         oldObj \in Objects, newObj \in Objects }

CallGetNextStatus ==
    /\ fn.op = "getNextStatus" /\ ~fn.called
    /\ fn' = [op |-> fn.op, called |-> TRUE, currentStatus |-> fn.currentStatus,
              userRole |-> fn.userRole, decision |-> fn.decision,
              result |-> getNextStatus(fn.currentStatus, fn.userRole, fn.decision)]
    /\ fnFrame

CallCanApprove ==
    /\ fn.op = "canApprove" /\ ~fn.called
    /\ fn' = [op |-> fn.op, called |-> TRUE, status |-> fn.status, userRole |-> fn.userRole,
              result |-> canApprove(fn.status, fn.userRole)]
    /\ fnFrame

CallCompareObjects ==
    /\ fn.op = "compareObjects" /\ ~fn.called
    /\ fn' = [op |-> fn.op, called |-> TRUE, oldObj |-> fn.oldObj, newObj |-> fn.newObj,
              result |-> compareObjects(fn.oldObj, fn.newObj)]
    /\ fnFrame

FnInit ==
    /\ users = {} /\ requests = {} /\ details = NoDetails /\ approvals = {}
    /\ historyLogs = {} /\ notifications = {}
    /\ dbInstance = FALSE
    /\ now = 0
    /\ itRequests = {} /\ apRequests = {} /\ forms = EmptyBag
    /\ usersList = {}
    /\ deleted = {}
    /\ fn \in Calls
    /\ last = NoOp

FnNext ==
    \/ CallGetNextStatus
    \/ CallCanApprove
    \/ CallCompareObjects

FnSpec == FnInit /\ [][FnNext]_vars

\* C1: getNextStatus with decision 'approved' moves every status of the
\* chain but the last to the status one place further along the chain, and
\* leaves the last, 'approved', where it is: no stage is skipped and none
\* is gone back to.
C1_ApproveMovesOneStep ==
    (fn.op = "getNextStatus" /\ fn.called /\ fn.decision = "approved"
        /\ fn.currentStatus \in ChainSet) =>
        LET i == ChainIndex(fn.currentStatus)
        IN fn.result = ChainStatuses[IF i < Len(ChainStatuses) THEN i + 1 ELSE i]

\* getNextStatus has been applied to an approval of a request in the middle
\* of the chain
C1_Witness ==
    /\ fn.op = "getNextStatus" /\ fn.called /\ fn.decision = "approved"
    /\ fn.currentStatus = "finance-review" /\ fn.result = "raghu-review"

\* the string form of a field's value, '' for a missing one
StringForm(obj, field) == IF field \in DOMAIN obj THEN String(obj[field]) ELSE ""

\* C8: compareObjects reports a compared field exactly when the string forms
\* of its old and new values differ, a missing value counting as '', and
\* hasChanges is true exactly when a field is reported.
C8_FlatStringComparison ==
    (fn.op = "compareObjects" /\ fn.called) =>
        /\ \A f \in (DOMAIN fn.oldObj \cup DOMAIN fn.newObj) \ MetadataFields :
              (f \in fn.result.changedFields) <=>
                  (StringForm(fn.oldObj, f) # StringForm(fn.newObj, f))
        /\ fn.result.changedFields \cap MetadataFields = {}
        /\ fn.result.hasChanges <=> (fn.result.changedFields # {})

====
